---- MODULE Spec2Model ----
(***************************************************************************)
(* The StatSnap dashboard script (src/app.py) as a state machine.          *)
(*                                                                         *)
(* The script is re-run from top to bottom on every interaction; the only  *)
(* state that survives a re-run is the uploaded file and the values of the *)
(* widgets, which the UI layer keeps per widget identity (label plus       *)
(* arguments) and drops for widgets a run did not render.                  *)
(*                                                                         *)
(* Library behaviour the script relies on (dataframe parsing, dtype        *)
(* selection, comparison with missing values, value counting, CSV writing, *)
(* slider argument handling) is modelled at the call that uses it.         *)
(***************************************************************************)
EXTENDS Integers, Sequences, FiniteSets, TLC

VARIABLES uploaded_file, session, run

vars == <<uploaded_file, session, run>>

-----------------------------------------------------------------------------
(* Bounds and inputs *)

MaxRows == 3

\* Numbers that occur as cell values.
Nums == (1..3) \cup {20, 30, 40, 50}

\* Positions a user can drag a range-slider handle to (a grid over the
\* slider's continuous track).
StopValues == (1..3) \cup {20, 25, 30, 40, 45, 50}

Headers == {<<"age">>, <<"city">>, <<"age", "city">>, <<"age", "score">>,
            <<"age", "flag">>, <<"city", "flag">>}

ColTokens(name) ==
    CASE name = "age"   -> {"", "1", "3"}
      [] name = "score" -> {"1", "2"}
      [] name = "flag"  -> {"", "True"}
      [] OTHER          -> {"", "x", "1"}

RowsOf(h) == {r \in [1..Len(h) -> {"", "1", "2", "3", "x", "True"}] :
                 \A j \in 1..Len(h) : r[j] \in ColTokens(h[j])}

ScenarioCsv ==
    [header |-> <<"age", "city">>,
     rows   |-> << <<"20", "NY">>, <<"30", "NY">>, <<"40", "LA">>, <<"50", "SF">> >>]

CsvsOf(h) == {[header |-> h, rows |-> rs] :
                 rs \in UNION {[1..k -> RowsOf(h)] : k \in 0..MaxRows}}

Uploads == UNION {CsvsOf(h) : h \in Headers} \cup {ScenarioCsv}

-----------------------------------------------------------------------------
(* Cell values: Numeric | Text | Boolean | Missing *)

Num(n)  == [t |-> "num",  n |-> n, s |-> ""]
Str(s)  == [t |-> "str",  n |-> 0, s |-> s]
Bool(b) == [t |-> "bool", n |-> IF b THEN 1 ELSE 0, s |-> ""]
NaN     == [t |-> "nan",  n |-> 0, s |-> ""]

\* Comparisons of the dataframe library: any comparison with a missing
\* value is False.
Ge(a, b) == a.t = "num" /\ b.t = "num" /\ a.n >= b.n
Le(a, b) == a.t = "num" /\ b.t = "num" /\ a.n <= b.n

Min2(a, b) == IF a <= b THEN a ELSE b
Max2(a, b) == IF a >= b THEN a ELSE b

Range(s) == {s[i] : i \in 1..Len(s)}

-----------------------------------------------------------------------------
(* pd.read_csv *)

QuotedEmpty == "\"\""

IntToks   == {ToString(n) : n \in Nums}
FloatToks == {ToString(n) \o ".0" : n \in Nums}

\* The number a numeric field denotes.
NumOf == [s \in IntToks \cup FloatToks |->
            CHOOSE n \in Nums : ToString(n) = s \/ ToString(n) \o ".0" = s]

IsMissingTok(s) == s = "" \/ s = QuotedEmpty
IsIntTok(s)     == s \in IntToks
IsFloatTok(s)   == s \in FloatToks
IsBoolTok(s)    == s \in {"True", "False"}

TokNum(s) == NumOf[s]

\* Variant: a column without any record is taken for a float column.
InferDtypeEmptyFloat(toks) ==
    IF \A i \in 1..Len(toks) :
          IsIntTok(toks[i]) \/ IsFloatTok(toks[i]) \/ IsMissingTok(toks[i])
    THEN "float64"
    ELSE IF \A i \in 1..Len(toks) : IsBoolTok(toks[i]) THEN "bool"
    ELSE "object"

\* dtype inference over one column's tokens.
InferDtype(toks) ==
    IF Len(toks) = 0 THEN "object"
    ELSE IF \A i \in 1..Len(toks) : IsIntTok(toks[i]) THEN "int64"
    ELSE IF \A i \in 1..Len(toks) :
               IsIntTok(toks[i]) \/ IsFloatTok(toks[i]) \/ IsMissingTok(toks[i])
         THEN "float64"
    ELSE IF \A i \in 1..Len(toks) : IsBoolTok(toks[i]) THEN "bool"
    ELSE "object"

ParseCell(tok, dtype, toks) ==
    IF IsMissingTok(tok) THEN NaN
    ELSE IF dtype \in {"int64", "float64"} THEN Num(TokNum(tok))
    ELSE IF dtype = "bool" THEN Bool(tok = "True")
    ELSE IF \A i \in 1..Len(toks) : IsBoolTok(toks[i]) \/ IsMissingTok(toks[i])
         THEN Bool(tok = "True")
    ELSE Str(tok)

\* skip_blank_lines: a line with no characters is not a record. Only a
\* one-column record whose field is empty and unquoted is such a line.
IsBlankLine(r) == Len(r) = 1 /\ r[1] = ""

ReadCsv(csv) ==
    LET rows    == SelectSeq(csv.rows, LAMBDA r : ~IsBlankLine(r))
        n       == Len(rows)
        w       == Len(csv.header)
        toks(j) == [i \in 1..n |-> rows[i][j]]
        dts     == [j \in 1..w |-> InferDtype(toks(j))]
    IN  [columns |-> csv.header,
         dtypes  |-> dts,
         index   |-> [i \in 1..n |-> i - 1],
         data    |-> [i \in 1..n |->
                        [j \in 1..w |-> ParseCell(rows[i][j], dts[j], toks(j))]]]

EmptyDf == [columns |-> <<>>, dtypes |-> <<>>, index |-> <<>>, data |-> <<>>]

NRows(df) == Len(df.data)

ColPos(df, name) == CHOOSE j \in 1..Len(df.columns) : df.columns[j] = name

Column(df, name) == [i \in 1..NRows(df) |-> df.data[i][ColPos(df, name)]]

-----------------------------------------------------------------------------
(* Column classification: df.select_dtypes *)

SelectDtypes(df, include) ==
    LET pos == SelectSeq([j \in 1..Len(df.columns) |-> j],
                         LAMBDA j : df.dtypes[j] \in include)
    IN  [k \in 1..Len(pos) |-> df.columns[pos[k]]]

\* Variant: bool counted among the numbers.
NumericColsWithBool(df) == SelectDtypes(df, {"int64", "float64", "bool"})

\* include="number": the integer and floating dtypes; bool is not a number.
NumericCols(df) == SelectDtypes(df, {"int64", "float64"})

CatCols(df) == SelectDtypes(df, {"object", "category", "bool"})

-----------------------------------------------------------------------------
(* Widgets.  A widget's value is kept between runs under its identity     *)
(* (label and arguments); a widget first seen in a run has its default.   *)

OffW == [on |-> FALSE, id |-> <<>>, val |-> <<>>]

OnW(id, val) == [on |-> TRUE, id |-> id, val |-> val]

WidgetValue(w, id, default) == IF w.on /\ w.id = id THEN w.val ELSE default

NoSession == [preview |-> OffW, num |-> OffW, range |-> OffW, cat |-> OffW]

\* st.slider makes min <= value(s) <= max by widening the bounds it is given.
SliderBounds(min_value, max_value, vlo, vhi) ==
    LET lo1 == Min2(min_value, max_value)
        hi1 == Max2(lo1, max_value)
    IN  [lo |-> Min2(vlo, lo1), hi |-> Max2(vhi, hi1)]

PreviewMin == 5
PreviewCap == 100
PreviewDefault == 10

\* n_rows = st.slider(...); st.dataframe(df.head(n_rows))
PreviewSlider(df, w) ==
    LET min_value == PreviewMin
        max_value == Min2(PreviewCap, NRows(df))
        value     == PreviewDefault
        b         == SliderBounds(min_value, max_value, value, value)
        id        == <<"Number of rows to preview", b.lo, b.hi, value>>
        n_rows    == WidgetValue(w, id, value)
    IN  [min_value |-> min_value, max_value |-> max_value, value |-> value,
         lo |-> b.lo, hi |-> b.hi, id |-> id, n_rows |-> n_rows,
         shown |-> SubSeq(df.data, 1, Min2(n_rows, NRows(df)))]

\* st.selectbox(label, options): the first option unless the user chose.
SelectBox(label, options, w) ==
    LET id == <<label, options>>
        ix == WidgetValue(w, id, 1)
    IN  [id |-> id, ix |-> ix, value |-> options[ix]]

\* float(df[num_column].min()) / .max(): missing values are skipped; over
\* no value at all the result is NaN.
ColMin(df, name) ==
    LET S == {c.n : c \in {x \in Range(Column(df, name)) : x.t = "num"}}
    IN  IF S = {} THEN NaN ELSE Num(CHOOSE m \in S : \A k \in S : m <= k)

\* Variant: the upper bound taken with min() as well.
ColMaxAsMin(df, name) == ColMin(df, name)

ColMax(df, name) ==
    LET S == {c.n : c \in {x \in Range(Column(df, name)) : x.t = "num"}}
    IN  IF S = {} THEN NaN ELSE Num(CHOOSE m \in S : \A k \in S : m >= k)

\* A range slider whose bounds coincide or are NaN: what the UI library
\* does with it depends on its version (it raises, or it returns the
\* default).  Both outcomes are kept.
DegenerateBounds(min_val, max_val) ==
    min_val.t = "nan" \/ max_val.t = "nan" \/ min_val = max_val

SliderOutcomes == {"return", "raise"}

RangeSlider(num_column, min_val, max_val, w) ==
    LET id == <<"Filter " \o num_column \o " range", min_val, max_val>>
    IN  [id |-> id, value |-> WidgetValue(w, id, <<min_val, max_val>>)]

\* Variant: strict comparisons, which drop the rows on the interval's ends.
FilterMaskStrict(df, num_column, selected_range) ==
    LET col == Column(df, num_column)
    IN  [i \in 1..NRows(df) |->
            /\ Ge(col[i], selected_range[1]) /\ col[i] # selected_range[1]
            /\ Le(col[i], selected_range[2]) /\ col[i] # selected_range[2]]

\* df[(df[c] >= lo) & (df[c] <= hi)]
FilterMask(df, num_column, selected_range) ==
    LET col == Column(df, num_column)
    IN  [i \in 1..NRows(df) |->
            Ge(col[i], selected_range[1]) /\ Le(col[i], selected_range[2])]

TakeRows(df, mask) ==
    LET pos == SelectSeq([i \in 1..NRows(df) |-> i], LAMBDA i : mask[i])
    IN  [columns |-> df.columns,
         dtypes  |-> df.dtypes,
         index   |-> [k \in 1..Len(pos) |-> df.index[pos[k]]],
         data    |-> [k \in 1..Len(pos) |-> df.data[pos[k]]]]

FilteredDf(df, num_column, selected_range) ==
    TakeRows(df, FilterMask(df, num_column, selected_range))

\* Variant: the fallback hands on a frame without the rows.
CopyDfNoRows(df) == [df EXCEPT !.index = <<>>, !.data = <<>>]

\* else: filtered_df = df.copy()
CopyDf(df) == df

-----------------------------------------------------------------------------
(* filtered_df[cat_column].value_counts().reset_index() *)

RECURSIVE FirstSeen(_)
FirstSeen(s) ==
    IF Len(s) = 0 THEN <<>>
    ELSE LET init == FirstSeen(SubSeq(s, 1, Len(s) - 1))
             x    == s[Len(s)]
         IN  IF x.t = "nan" \/ x \in Range(init) THEN init ELSE Append(init, x)

CountOf(s, v) == Cardinality({i \in 1..Len(s) : s[i] = v})

\* Stable insertion of a (value, count) pair into a table sorted by
\* descending count.
InsertDesc(tbl, p) ==
    LET k == Cardinality({i \in 1..Len(tbl) : tbl[i][2] >= p[2]})
    IN  SubSeq(tbl, 1, k) \o <<p>> \o SubSeq(tbl, k + 1, Len(tbl))

RECURSIVE SortDesc(_)
SortDesc(tbl) ==
    IF Len(tbl) = 0 THEN <<>>
    ELSE InsertDesc(SortDesc(SubSeq(tbl, 1, Len(tbl) - 1)), tbl[Len(tbl)])

\* Variant: the categorical column is read from the full frame.
CountedColumnOfDf(df, filtered_df, cat_column) == Column(df, cat_column)

\* filtered_df[cat_column]
CountedColumn(df, filtered_df, cat_column) == Column(filtered_df, cat_column)

ValueCounts(col) ==
    LET vs == FirstSeen(col)
    IN  SortDesc([k \in 1..Len(vs) |-> <<vs[k], CountOf(col, vs[k])>>])

-----------------------------------------------------------------------------
(* filtered_df.to_csv(index=False) *)

FormatCell(c, dtype, width) ==
    CASE c.t = "nan"  -> IF width = 1 THEN QuotedEmpty ELSE ""
      [] c.t = "num"  -> IF dtype = "int64" THEN ToString(c.n)
                         ELSE ToString(c.n) \o ".0"
      [] c.t = "bool" -> IF c.n = 1 THEN "True" ELSE "False"
      [] OTHER        -> c.s

\* Variant: index=True, the row labels written as a first, unnamed column.
ToCsvWithIndex(df) ==
    LET w == Len(df.columns)
    IN  [header |-> <<"">> \o df.columns,
         rows   |-> [i \in 1..NRows(df) |->
                       <<ToString(df.index[i])>> \o
                       [j \in 1..w |-> FormatCell(df.data[i][j], df.dtypes[j], w + 1)]]]

ToCsv(df) ==
    LET w == Len(df.columns)
    IN  [header |-> df.columns,
         rows   |-> [i \in 1..NRows(df) |->
                       [j \in 1..w |-> FormatCell(df.data[i][j], df.dtypes[j], w)]]]

EmptyCsv == [header |-> <<>>, rows |-> <<>>]

-----------------------------------------------------------------------------
(* One run of the script, top to bottom *)

NoFile == <<>>

\* else: st.info("Please upload a CSV file to begin.")
NoFileRun ==
    [status |-> "no_file", df |-> EmptyDf,
     preview |-> PreviewSlider(EmptyDf, OffW),
     numeric_cols |-> <<>>, num_column |-> "",
     min_val |-> NaN, max_val |-> NaN, selected_range |-> <<NaN, NaN>>,
     filtered_df |-> EmptyDf, cat_cols |-> <<>>, cat_column |-> "",
     value_counts |-> <<>>, csv_data |-> EmptyCsv,
     views |-> {"info_upload"}]

NumericViews(numeric_cols) ==
    IF Len(numeric_cols) > 0
    THEN {"histogram", "boxplot"} \cup
         (IF Len(numeric_cols) >= 2 THEN {"corr_heatmap"}
                                    ELSE {"info_corr_needs_two"})
    ELSE {}

CategoricalViews(cat_column) ==
    IF cat_column # "" THEN {"value_counts", "bar"} ELSE {}

\* The value of a singleton set.
Only(S) == CHOOSE x \in S : TRUE

\* Dataset Overview: the row and column counts and the preview.
Overview(df, sess) ==
    [df |-> df, preview |-> PreviewSlider(df, sess.preview)]

\* Sidebar, numeric column: the selection and the column's observed range.
NumericControls(a, sess) ==
    LET numeric_cols == NumericCols(a.df)
        hasNum       == Len(numeric_cols) > 0
        nsel         == SelectBox("Select numeric column", numeric_cols, sess.num)
        num_column   == IF hasNum THEN nsel.value ELSE ""
        min_val      == IF hasNum THEN ColMin(a.df, num_column) ELSE NaN
        max_val      == IF hasNum THEN ColMax(a.df, num_column) ELSE NaN
    IN  [df |-> a.df, preview |-> a.preview,
         numeric_cols |-> numeric_cols, num_column |-> num_column,
         num_w |-> IF hasNum THEN OnW(nsel.id, nsel.ix) ELSE OffW,
         min_val |-> min_val, max_val |-> max_val,
         degenerate |-> hasNum /\ DegenerateBounds(min_val, max_val)]

\* The range slider and the filtered data, or the unfiltered copy.
RangeFilter(b, sess, lib) ==
    LET hasNum         == Len(b.numeric_cols) > 0
        rs             == RangeSlider(b.num_column, b.min_val, b.max_val, sess.range)
        selected_range == IF hasNum THEN rs.value ELSE <<NaN, NaN>>
    IN  [df |-> b.df, preview |-> b.preview,
         numeric_cols |-> b.numeric_cols, num_column |-> b.num_column,
         num_w |-> b.num_w, min_val |-> b.min_val, max_val |-> b.max_val,
         degenerate |-> b.degenerate,
         raised |-> b.degenerate /\ lib = "raise",
         selected_range |-> selected_range,
         range_w |-> IF hasNum THEN OnW(rs.id, selected_range) ELSE OffW,
         filtered_df |-> IF hasNum
                         THEN FilteredDf(b.df, b.num_column, selected_range)
                         ELSE CopyDf(b.df)]

\* The run ends at the exception the range slider raised.
Aborted(c) ==
    [run |->
        [status |-> "error", df |-> c.df, preview |-> c.preview,
         numeric_cols |-> c.numeric_cols, num_column |-> c.num_column,
         min_val |-> c.min_val, max_val |-> c.max_val,
         selected_range |-> <<NaN, NaN>>,
         filtered_df |-> EmptyDf, cat_cols |-> <<>>, cat_column |-> "",
         value_counts |-> <<>>, csv_data |-> EmptyCsv,
         views |-> {"overview", "preview", "exception"}],
     session |->
        [preview |-> OnW(c.preview.id, c.preview.n_rows),
         num     |-> c.num_w,
         range   |-> OffW,
         cat     |-> OffW],
     degenerate |-> c.degenerate]

\* Sidebar, categorical column; then the views and the export.
Analysis(c, sess) ==
    LET hasNum       == Len(c.numeric_cols) > 0
        cat_cols     == CatCols(c.df)
        hasCat       == Len(cat_cols) > 0
        csel         == SelectBox("Select categorical column", cat_cols, sess.cat)
        cat_column   == IF hasCat THEN csel.value ELSE ""
        value_counts == IF cat_column # ""
                        THEN ValueCounts(CountedColumn(c.df, c.filtered_df, cat_column))
                        ELSE <<>>
        views        == {"overview", "preview", "download", "about"}
                        \cup (IF hasNum THEN {"filtered_rows"}
                                        ELSE {"warning_no_numeric"})
                        \cup (IF hasCat THEN {} ELSE {"info_no_categorical"})
                        \cup NumericViews(c.numeric_cols)
                        \cup CategoricalViews(cat_column)
    IN  [run |->
            [status |-> "ok", df |-> c.df, preview |-> c.preview,
             numeric_cols |-> c.numeric_cols, num_column |-> c.num_column,
             min_val |-> c.min_val, max_val |-> c.max_val,
             selected_range |-> c.selected_range,
             filtered_df |-> c.filtered_df,
             cat_cols |-> cat_cols, cat_column |-> cat_column,
             value_counts |-> value_counts,
             csv_data |-> ToCsv(c.filtered_df),
             views |-> views],
         session |->
            [preview |-> OnW(c.preview.id, c.preview.n_rows),
             num     |-> c.num_w,
             range   |-> c.range_w,
             cat     |-> IF hasCat THEN OnW(csel.id, csel.ix) ELSE OffW],
         degenerate |-> c.degenerate]

Pass(file, sess, lib) ==
    IF file = NoFile
    THEN [run |-> NoFileRun, session |-> NoSession, degenerate |-> FALSE]
    ELSE Only({IF c.raised THEN Aborted(c) ELSE Analysis(c, sess) :
                 c \in {RangeFilter(b, sess, lib) :
                   b \in {NumericControls(a, sess) :
                     a \in {Overview(df, sess) : df \in {ReadCsv(file[1])}}}}})

\* The script runs to its end, or to the exception of a range slider with
\* degenerate bounds.
Rerun(file, sess) ==
    \E lib \in SliderOutcomes :
    \E p \in {Pass(file, sess, lib)} :
        /\ lib = "raise" => p.degenerate
        /\ uploaded_file' = file
        /\ run' = p.run
        /\ session' = p.session

-----------------------------------------------------------------------------
(* Interactions; each one triggers a run *)

Init ==
    /\ uploaded_file = NoFile
    /\ session = NoSession
    /\ run = NoFileRun

Upload ==
    /\ uploaded_file = NoFile
    /\ \E csv \in Uploads : Rerun(<<csv>>, session)

RemoveFile ==
    /\ uploaded_file # NoFile
    /\ Rerun(NoFile, session)

MovePreviewSlider ==
    /\ session.preview.on
    /\ \E n \in {run.preview.lo, run.preview.hi} :
          /\ n # session.preview.val
          /\ Rerun(uploaded_file,
                   [session EXCEPT !.preview.val = n])

SelectNumColumn ==
    /\ session.num.on
    /\ \E ix \in 1..Len(run.numeric_cols) :
          /\ ix # session.num.val
          /\ Rerun(uploaded_file, [session EXCEPT !.num.val = ix])

RangeStops(min_val, max_val) ==
    IF min_val.t = "num" /\ max_val.t = "num"
    THEN {Num(v) : v \in {x \in StopValues : min_val.n <= x /\ x <= max_val.n}}
    ELSE {}

MoveRangeSlider ==
    /\ session.range.on
    /\ \E lo, hi \in RangeStops(run.min_val, run.max_val) :
          /\ lo.n <= hi.n
          /\ <<lo, hi>> # session.range.val
          /\ Rerun(uploaded_file, [session EXCEPT !.range.val = <<lo, hi>>])

SelectCatColumn ==
    /\ session.cat.on
    /\ \E ix \in 1..Len(run.cat_cols) :
          /\ ix # session.cat.val
          /\ Rerun(uploaded_file, [session EXCEPT !.cat.val = ix])

Next ==
    \/ Upload
    \/ RemoveFile
    \/ MovePreviewSlider
    \/ SelectNumColumn
    \/ MoveRangeSlider
    \/ SelectCatColumn

Spec == Init /\ [][Next]_vars

-----------------------------------------------------------------------------
(* Properties *)

Loaded == run.status # "no_file"
Done   == run.status = "ok"

HasNumeric == Len(run.numeric_cols) > 0

lo == run.selected_range[1]
hi == run.selected_range[2]

\* The chosen numeric column of the full Dataset, and the positions of the
\* Dataset rows the view holds.
FilterColumn == Column(run.df, run.num_column)
ViewLabels   == Range(run.filtered_df.index)

IsSubframeInOrder(f, df) ==
    /\ f.columns = df.columns
    /\ Len(f.index) = Len(f.data)
    /\ \A k \in 1..Len(f.index) :
          /\ f.index[k] + 1 \in 1..NRows(df)
          /\ f.data[k] = df.data[f.index[k] + 1]
    /\ \A k1, k2 \in 1..Len(f.index) : k1 < k2 => f.index[k1] < f.index[k2]

\* C1: with a numeric column c and an interval lo <= hi, the view holds
\* exactly the Dataset rows whose value in c is present and lies in
\* [lo, hi], ends included, in Dataset order.
RangeFilterExact ==
    (Done /\ HasNumeric /\ lo.t = "num" /\ hi.t = "num" /\ lo.n <= hi.n) =>
        /\ IsSubframeInOrder(run.filtered_df, run.df)
        /\ \A i \in 1..NRows(run.df) :
              (i - 1 \in ViewLabels) <=>
                  /\ FilterColumn[i].t = "num"
                  /\ lo.n <= FilterColumn[i].n
                  /\ FilterColumn[i].n <= hi.n

\* A narrowed interval that keeps two rows, one of them on its lower end,
\* and leaves rows out.
RangeFilterWitness ==
    /\ Done /\ HasNumeric /\ lo.t = "num" /\ hi.t = "num"
    /\ <<lo, hi>> # <<run.min_val, run.max_val>>
    /\ NRows(run.filtered_df) >= 2
    /\ NRows(run.filtered_df) < NRows(run.df)
    /\ \E i \in 1..NRows(run.df) : i - 1 \in ViewLabels /\ FilterColumn[i] = lo

FullRange ==
    /\ Done /\ HasNumeric
    /\ run.min_val.t = "num"
    /\ run.selected_range = <<run.min_val, run.max_val>>

MissingInFilterColumn == {i \in 1..NRows(run.df) : FilterColumn[i].t = "nan"}

\* C2 as stated: over the full observed range the view has as many rows as
\* the Dataset, missing values in the chosen column or not.
FullRangeKeepsEveryRow ==
    FullRange => NRows(run.filtered_df) = NRows(run.df)

\* C2 as amended: over the full observed range the view holds exactly the
\* rows whose value in the chosen column is present, so it has the
\* Dataset's row count less the rows with a missing value there.
FullRangeKeepsPresentRows ==
    FullRange =>
        /\ IsSubframeInOrder(run.filtered_df, run.df)
        /\ ViewLabels = {i - 1 : i \in (1..NRows(run.df)) \ MissingInFilterColumn}
        /\ NRows(run.filtered_df) =
               NRows(run.df) - Cardinality(MissingInFilterColumn)

FullRangeWitness ==
    /\ FullRange
    /\ MissingInFilterColumn # {}
    /\ run.min_val # run.max_val
    /\ NRows(run.filtered_df) >= 2

\* C3 as stated: with fewer than two numeric columns (one, or none) the
\* correlation view shows the "insufficient columns" message, no matrix,
\* and the run goes on to the export.
FewNumericColsReported ==
    (Done /\ Len(run.numeric_cols) < 2) =>
        /\ "info_corr_needs_two" \in run.views
        /\ "corr_heatmap" \notin run.views
        /\ "download" \in run.views

NoNumericFallback ==
    (Loaded /\ ~HasNumeric) =>
        /\ Done
        /\ run.filtered_df = run.df
        /\ ~session.range.on
        /\ "warning_no_numeric" \in run.views
        /\ run.csv_data.header = run.df.columns
        /\ Len(run.csv_data.rows) = NRows(run.df)

NoNumericWitness ==
    /\ Done /\ ~HasNumeric
    /\ NRows(run.df) >= 2
    /\ run.cat_column # ""

RECURSIVE SumCounts(_)
SumCounts(tbl) ==
    IF Len(tbl) = 0 THEN 0 ELSE tbl[1][2] + SumCounts(Tail(tbl))

ViewCatColumn == Column(run.filtered_df, run.cat_column)

InScenario ==
    /\ uploaded_file = <<ScenarioCsv>>
    /\ Done
    /\ run.num_column = "age"
    /\ run.selected_range = <<Num(25), Num(45)>>

\* C6: the value-count table has one row per distinct present value of
\* the chosen categorical column among the view's rows, each with the
\* number of view rows holding it; the counts add up to the view's rows
\* with a present value; rows are in descending order of count.  Ages
\* 20,30,40,50 with cities NY,NY,LA,SF filtered to [25,45] give the rows
\* (30,NY),(40,LA) and the table [(NY,1),(LA,1)].
ValueCountsOfView ==
    /\ (Done /\ run.cat_column # "") =>
          LET vc == run.value_counts
          IN  /\ {vc[k][1] : k \in 1..Len(vc)} =
                     {c \in Range(ViewCatColumn) : c.t # "nan"}
              /\ \A k1, k2 \in 1..Len(vc) : k1 # k2 => vc[k1][1] # vc[k2][1]
              /\ \A k \in 1..Len(vc) :
                    vc[k][2] = Cardinality({i \in 1..Len(ViewCatColumn) :
                                               ViewCatColumn[i] = vc[k][1]})
              /\ SumCounts(vc) = Cardinality({i \in 1..Len(ViewCatColumn) :
                                                 ViewCatColumn[i].t # "nan"})
              /\ \A k \in 1..Len(vc) - 1 : vc[k][2] >= vc[k + 1][2]
    /\ InScenario =>
          /\ run.filtered_df.data = << <<Num(30), Str("NY")>>, <<Num(40), Str("LA")>> >>
          /\ run.value_counts = << <<Str("NY"), 1>>, <<Str("LA"), 1>> >>

ValueCountsWitness == InScenario /\ run.cat_column = "city"

Reparsed == ReadCsv(run.csv_data)

\* A text cell read back as the number or the boolean its text denotes.
Retyped(c, back) ==
    /\ c.t = "str"
    /\ \/ (IsIntTok(c.s) \/ IsFloatTok(c.s)) /\ back = Num(TokNum(c.s))
       \/ IsBoolTok(c.s) /\ back = Bool(c.s = "True")

\* C7 as stated: the export has the input's header and the view's rows in
\* order, and re-parsing it gives the view's content back.
ExportRoundTrip ==
    Done =>
        /\ run.csv_data.header = uploaded_file[1].header
        /\ Reparsed.columns = run.filtered_df.columns
        /\ Reparsed.data = run.filtered_df.data

\* C7 as amended: the export has the input's header and column order and
\* one record per view row, in order, without an index column; re-parsing
\* it gives a Dataset with the same columns and row count whose cells equal
\* the view's, except that text cells of a column whose remaining values all
\* read as numbers or booleans come back as numbers or booleans.
ExportRoundTripUpToRetyping ==
    Done =>
        /\ run.csv_data.header = uploaded_file[1].header
        /\ Reparsed.columns = run.filtered_df.columns
        /\ NRows(Reparsed) = NRows(run.filtered_df)
        /\ \A i \in 1..NRows(Reparsed) : \A j \in 1..Len(Reparsed.columns) :
              \/ Reparsed.data[i][j] = run.filtered_df.data[i][j]
              \/ Retyped(run.filtered_df.data[i][j], Reparsed.data[i][j])

ExportWitness ==
    /\ Done /\ HasNumeric
    /\ NRows(run.filtered_df) >= 1
    /\ NRows(run.filtered_df) < NRows(run.df)
    /\ \E i \in 1..NRows(Reparsed) : \E j \in 1..Len(Reparsed.columns) :
          Reparsed.data[i][j] # run.filtered_df.data[i][j]

\* C8 as stated: the interval in force lies within the selected column's
\* observed range, min <= lo <= hi <= max.
FilterSpecWithinRange ==
    (Done /\ HasNumeric) =>
        /\ Le(run.min_val, lo)
        /\ Le(lo, hi)
        /\ Le(hi, run.max_val)

BoolColumns ==
    {run.df.columns[j] : j \in {k \in 1..Len(run.df.columns) : run.df.dtypes[k] = "bool"}}

ClassificationDisjoint ==
    Done =>
        /\ Range(run.numeric_cols) \cap Range(run.cat_cols) = {}
        /\ Range(run.numeric_cols) \cup Range(run.cat_cols) \subseteq Range(run.df.columns)
        /\ BoolColumns \subseteq Range(run.cat_cols)
        /\ BoolColumns \cap Range(run.numeric_cols) = {}

ClassificationKept ==
    (Done /\ Done' /\ uploaded_file' = uploaded_file) =>
        /\ run'.numeric_cols = run.numeric_cols
        /\ run'.cat_cols = run.cat_cols

\* C9: the numeric and the categorical columns are disjoint, a boolean
\* column is categorical only, and no interaction on the same Dataset
\* (interval, column selections, preview size) changes the classification.
ClassificationStable == []ClassificationDisjoint /\ [][ClassificationKept]_vars

ClassificationWitness ==
    /\ Done /\ HasNumeric
    /\ BoolColumns # {}
    /\ NRows(run.filtered_df) < NRows(run.df)
    /\ <<lo, hi>> # <<run.min_val, run.max_val>>

\* C10 as stated: the preview-size control is given minimum <= default <=
\* maximum, the maximum being min(100, row count).
PreviewControlWellFormed ==
    Loaded =>
        /\ run.preview.max_value = Min2(PreviewCap, NRows(run.df))
        /\ run.preview.min_value <= run.preview.value
        /\ run.preview.value <= run.preview.max_value

====
